---- MODULE Spec2Model ----
(***************************************************************************)
(* Model of GameEngine (src/App.tsx): the frame loop, the player physics,  *)
(* the collision block, the spawner and the autopilot (updateAI and        *)
(* analyzeLane), with the commands the App component forwards to it.       *)
(*                                                                         *)
(* Numbers are fixed point.  Road positions (z), lateral positions (x),    *)
(* speed and distance are multiples of 0.0002, the speed increment, so     *)
(* one world unit is U = 5000.  Heights and vertical velocity are          *)
(* multiples of 0.01 (base height 1 = 100, jumpForce 0.38 = 38, gravity    *)
(* 0.02 = 2).  Lane scores are multiples of 0.25.  Products of the lateral *)
(* easing and the quotient 100000 / (dist + 1) are truncated to that       *)
(* resolution.                                                             *)
(***************************************************************************)
EXTENDS Integers, Sequences, FiniteSets, TLC

VARIABLES
    state,                \* GameState: "MENU", "PLAYING", "GAME_OVER"
    animationId,          \* handle of the last requestAnimationFrame
    pending,              \* handles of the frame callbacks not yet run or cancelled
    score,
    distanceTraveled,
    gameSpeed,
    currentLane,
    playerVelocityY,
    isJumping,
    isRolling,
    rollTimer,
    playerX,              \* player.position.x
    playerY,              \* player.position.y
    scaleY,               \* player.scale.y, in tenths
    autoPilotEnabled,
    lastSafeLane,
    aiLaneChangeCooldown,
    obstacles,            \* sequence of [lane, z, type, active]
    groundSegments,       \* position.z of each ground segment
    runs,                 \* history: start() calls that entered PLAYING
    cmds,                 \* history: manual commands of the current run
    placed,               \* history: objects the spawner placed in the current run
    overCalls,            \* history: onGameOver invocations of the current run
    coins,                \* history: coins collected in the current run
    sinceSwitch,          \* history: autopilot ticks since the last optimisation
                          \*   switch of the run without an emergency, up to 20
    watch,                \* history: the barrier of the player's lane the Navigator
                          \*   has found within reach of the reflex
    ev                    \* history: what the last operation did

vars == <<state, animationId, pending, score, distanceTraveled, gameSpeed,
          currentLane, playerVelocityY, isJumping, isRolling, rollTimer,
          playerX, playerY, scaleY, autoPilotEnabled, lastSafeLane,
          aiLaneChangeCooldown, obstacles, groundSegments, runs, cmds, placed,
          overCalls, coins, sinceSwitch, watch, ev>>

\* ------------------------------------------------------------------ bounds

MaxFrames == 288      \* frames requested over all runs
MaxRuns == 2          \* start() calls that enter PLAYING
MaxCmds == 2          \* manual commands per run
MaxObjs == 1          \* objects the spawner places per run; later rows stay empty
CmdLead == 3          \* manual commands are issued this many frames before an object arrives
AIFrames == 30        \* frames of SpecAI
AIObjs == 2           \* objects per run of SpecAI
SpawnFrames == 120    \* frames of SpecSpawn
SpawnObjs == 2        \* objects per run of SpecSpawn
RowFrames == 116      \* frames of SpecRows
RowObjs == 4          \* objects per run of SpecRows
OneRun == 1           \* runs of SpecRows and SpecRoad
RoadFrames == 450     \* frames of SpecRoad: more than one turn of the segment ring
RoadObjs == 0         \* objects per run of SpecRoad
PilotFrames == 292    \* frames of SpecPilot: the first row passes the player
PilotObjs == 2        \* objects per run of SpecPilot
FarSwitch == 40       \* SpecPilot: the autopilot button is pressed with the first row
NearSwitch == 10      \*   at these distances
CloseSwitch == 3      \* SpecDodge: the button is pressed with the first row this near
LaneFrames == 8       \* frames of SpecLanes
LaneReach == 2        \* setLane is called with arguments from -LaneReach to LaneReach
MoveFrames == 46      \* frames of SpecMoves: a jump or a roll and a few frames more
ScanObjs == 2         \* entries of the obstacle lists analyzeLane is applied to in SpecScan
FastFrames == 7104    \* frames of SpecFast: the speed has passed 2.0
QuietFrames == 7008   \* SpecFast: the rows drawn before this frame are empty
ReflexFrames == 11070 \* frames of SpecReflex: a row placed at full speed has passed
FirstRow == 1         \* SpecReflex: hazards of the first row
NextRow == 2          \*   and of the row behind it

\* --------------------------------------------------------------- constants

U == 5000
startSpeed == 3000
maxSpeed == 14000
speedIncrement == 1
jumpForce == 38
gravity == 2
playerBaseY == 100
laneWidth == 4 * U
rollTicks == 40                   \* the countdown roll() starts
segmentCount == 25                \* segments createInitialWorld lays
segmentLength == 10 * U           \* their spacing, the length of the road plane
visibilityRange == 350 * U

Lanes == {-1, 0, 1}
SOLID == "solid"
JUMP == "jump"
DUCK == "duck"
COIN == "coin"

Abs(a) == IF a < 0 THEN -a ELSE a

\* a * num / den, truncated toward zero
Frac(a, num, den) == IF a < 0 THEN -((-a * num) \div den) ELSE (a * num) \div den

\* what one operation did: the scores it passed to onScoreChange and
\* onGameOver, the contacts its collision block judged, the snapshots it
\* passed to onAIUpdate, what the action execution of updateAI saw and
\* issued, the rows it spawned
NoEv == [op |-> "none", ticked |-> FALSE, reported |-> <<>>, finals |-> <<>>,
         contacts |-> <<>>, coinHits |-> <<>>, spawned |-> FALSE, gate |-> <<>>,
         ai |-> <<>>, aiFrom |-> 0, aiTo |-> 0, reflex |-> <<>>, reset |-> <<>>,
         pre |-> <<>>]

\* ------------------------------------------------------------ analyzeLane

NoThreat == 9999 * U          \* the 9999 "nothing ahead" distance
Sentinel == -999999 * 4       \* the "impossible lane" score
ScoreBase == 5000 * 4

\* the entries analyzeLane keeps: active, in the lane, -range < z < 10
laneObs(obs, laneIdx, range) ==
    {i \in 1..Len(obs) : /\ obs[i].active
                         /\ obs[i].lane = laneIdx
                         /\ obs[i].z > -range
                         /\ obs[i].z < 10 * U}

\* first entry of S with the farthest entry ahead sorted first
lastByZ(obs, S) ==
    CHOOSE i \in S : \A j \in S : \/ obs[j].z > obs[i].z
                                  \/ (obs[j].z = obs[i].z /\ i <= j)

\* first entry of S in the order of laneObs.sort((a, b) => b.z - a.z)
firstByZ(obs, S) ==
    CHOOSE i \in S : \A j \in S : \/ obs[j].z < obs[i].z
                                  \/ (obs[j].z = obs[i].z /\ i <= j)

\* the loop body with a blocked-beside window of 4 on either side
scanOneEvenWindow(a, o, rolling, jumping) ==
    LET z    == o.z
        dist == Abs(z)
        a1   == IF z > -4 * U /\ z < 4 * U /\ o.type # COIN
                THEN [a EXCEPT !.isBlockedSide = TRUE, !.score = Sentinel]
                ELSE a
        a2   == IF dist < a1.distanceToThreat
                THEN [a1 EXCEPT !.distanceToThreat = dist, !.threatType = o.type]
                ELSE a1
    IN  IF o.type = COIN THEN [a1 EXCEPT !.score = @ + 50 * 4]
        ELSE IF z >= 0 THEN a1
        ELSE IF o.type = SOLID
             THEN [a2 EXCEPT !.isDeadly = TRUE,
                             !.firstSolidDist = IF dist < @ THEN dist ELSE @,
                             !.score = @ - (2000000000 \div (dist + U))]
        ELSE IF o.type = JUMP
             THEN [a2 EXCEPT !.action = IF @ = "none" THEN "jump" ELSE @,
                             !.score = @ - 100 * 4
                                         - (IF rolling /\ dist < 30 * U THEN 5000 * 4 ELSE 0)]
        ELSE [a2 EXCEPT !.action = IF @ = "none" THEN "duck" ELSE @,
                        !.score = @ - 100 * 4
                                    - (IF jumping /\ dist < 30 * U THEN 5000 * 4 ELSE 0)]

\* the body of the for loop of analyzeLane, for one entry o
scanOne(a, o, rolling, jumping) ==
    LET z    == o.z
        dist == Abs(z)
        a1   == IF z > -4 * U /\ z < 5 * U /\ o.type # COIN
                THEN [a EXCEPT !.isBlockedSide = TRUE, !.score = Sentinel]
                ELSE a
        a2   == IF dist < a1.distanceToThreat
                THEN [a1 EXCEPT !.distanceToThreat = dist, !.threatType = o.type]
                ELSE a1
    IN  IF o.type = COIN THEN [a1 EXCEPT !.score = @ + 50 * 4]
        ELSE IF z >= 0 THEN a1
        ELSE IF o.type = SOLID
             THEN [a2 EXCEPT !.isDeadly = TRUE,
                             !.firstSolidDist = IF dist < @ THEN dist ELSE @,
                             !.score = @ - (2000000000 \div (dist + U))]
        ELSE IF o.type = JUMP
             THEN [a2 EXCEPT !.action = IF @ = "none" THEN "jump" ELSE @,
                             !.score = @ - 100 * 4
                                         - (IF rolling /\ dist < 30 * U THEN 5000 * 4 ELSE 0)]
        ELSE [a2 EXCEPT !.action = IF @ = "none" THEN "duck" ELSE @,
                        !.score = @ - 100 * 4
                                    - (IF jumping /\ dist < 30 * U THEN 5000 * 4 ELSE 0)]

RECURSIVE scanLane(_, _, _, _, _)
scanLane(obs, S, a, rolling, jumping) ==
    IF S = {} THEN a
    ELSE LET i == firstByZ(obs, S)
         IN  scanLane(obs, S \ {i}, scanOne(a, obs[i], rolling, jumping), rolling, jumping)

analyzeLane(obs, laneIdx, range, rolling, jumping) ==
    LET a0 == [lane |-> laneIdx, isDeadly |-> FALSE, isBlockedSide |-> FALSE,
               action |-> "none", score |-> ScoreBase, distanceToThreat |-> NoThreat,
               threatType |-> "none", firstSolidDist |-> NoThreat]
        a  == scanLane(obs, laneObs(obs, laneIdx, range), a0, rolling, jumping)
    IN  IF laneIdx = 0 THEN [a EXCEPT !.score = @ + 10 * 4] ELSE a

\* ------------------------------------------------------- jump, roll, setLane

\* jump() that leaves isRolling as it is
jumpKeepsRoll(s) ==
    IF ~s.isJumping
    THEN [s EXCEPT !.isJumping = TRUE, !.playerVelocityY = jumpForce]
    ELSE s

\* jump() with a take-off velocity of 0.20
jumpLow(s) ==
    IF ~s.isJumping
    THEN [s EXCEPT !.isJumping = TRUE, !.playerVelocityY = 20, !.isRolling = FALSE]
    ELSE s

\* jump() on the engine record s
jump(s) ==
    IF ~s.isJumping
    THEN [s EXCEPT !.isJumping = TRUE, !.playerVelocityY = jumpForce, !.isRolling = FALSE]
    ELSE s

\* roll() that does not look at isJumping
rollInAir(s) ==
    IF ~s.isRolling
    THEN [s EXCEPT !.isRolling = TRUE, !.rollTimer = rollTicks]
    ELSE s

\* roll() on the engine record s
roll(s) ==
    IF ~s.isJumping /\ ~s.isRolling
    THEN [s EXCEPT !.isRolling = TRUE, !.rollTimer = rollTicks]
    ELSE s

setLane(s, l) == [s EXCEPT !.currentLane = l]

moveLeft(s) == IF s.currentLane > -1 THEN [s EXCEPT !.currentLane = @ - 1] ELSE s

moveRight(s) == IF s.currentLane < 1 THEN [s EXCEPT !.currentLane = @ + 1] ELSE s

toggleAutoPilot(s, v) == [s EXCEPT !.autoPilotEnabled = v]

\* ---------------------------------------------------------------- updateAI

\* analysis.sort((a, b) => b.score - a.score)[0]: the sort is stable, so of
\* the lanes with the highest score the one first in [-1, 0, 1] comes first
bestLane(an) ==
    CHOOSE l \in Lanes : /\ \A m \in Lanes : an[m].score <= an[l].score
                         /\ \A m \in Lanes : an[m].score = an[l].score => l <= m

\* a lane decision that always keeps the lane
laneDecisionNoDodge(s, an, cooldown) ==
    [target |-> s.currentLane, action |-> "SCANNING",
     emergency |-> an[s.currentLane].firstSolidDist < 100 * U + 20 * s.gameSpeed,
     cooldown |-> cooldown]

\* a lane decision that switches for any gain in score
laneDecisionAnyGain(s, an, cooldown) ==
    LET cur   == an[s.currentLane]
        best  == an[bestLane(an)]
        emerg == cur.firstSolidDist < 100 * U + 20 * s.gameSpeed
        cd    == IF emerg THEN 0 ELSE cooldown
        dir   == IF best.lane - s.currentLane > 0 THEN 1 ELSE -1
        next  == an[s.currentLane + dir]
        isSafer == /\ next.firstSolidDist > 20 * U
                   /\ next.firstSolidDist > cur.firstSolidDist
        isSafe  == next.firstSolidDist > 30 * U
        stay  == [target |-> s.currentLane, action |-> "SCANNING",
                  emergency |-> emerg, cooldown |-> cd]
    IN  IF emerg
        THEN IF best.lane # s.currentLane /\ ~next.isBlockedSide /\ (isSafe \/ isSafer)
             THEN [stay EXCEPT !.target = next.lane, !.action = "DODGE"]
             ELSE stay
        ELSE IF /\ cd <= 0
                /\ best.score > cur.score
                /\ best.firstSolidDist > 300 * U
                /\ ~best.isBlockedSide
             THEN [stay EXCEPT !.target = best.lane, !.action = "RUN", !.cooldown = 20]
             ELSE stay

\* a lane decision whose emergency step does not look beside
laneDecisionBlindStep(s, an, cooldown) ==
    LET cur   == an[s.currentLane]
        best  == an[bestLane(an)]
        emerg == cur.firstSolidDist < 100 * U + 20 * s.gameSpeed
        cd    == IF emerg THEN 0 ELSE cooldown
        dir   == IF best.lane - s.currentLane > 0 THEN 1 ELSE -1
        next  == an[s.currentLane + dir]
        isSafer == /\ next.firstSolidDist > 20 * U
                   /\ next.firstSolidDist > cur.firstSolidDist
        isSafe  == next.firstSolidDist > 30 * U
        stay  == [target |-> s.currentLane, action |-> "SCANNING",
                  emergency |-> emerg, cooldown |-> cd]
    IN  IF emerg
        THEN IF best.lane # s.currentLane /\ (isSafe \/ isSafer)
             THEN [stay EXCEPT !.target = next.lane, !.action = "DODGE"]
             ELSE stay
        ELSE IF /\ cd <= 0
                /\ best.score > cur.score + 50 * 4
                /\ best.firstSolidDist > 300 * U
                /\ ~best.isBlockedSide
             THEN [stay EXCEPT !.target = best.lane, !.action = "RUN", !.cooldown = 20]
             ELSE stay

\* a lane decision whose emergency threshold does not grow with the speed
laneDecisionFixedRange(s, an, cooldown) ==
    LET cur   == an[s.currentLane]
        best  == an[bestLane(an)]
        emerg == cur.firstSolidDist < 100 * U
        cd    == IF emerg THEN 0 ELSE cooldown
        dir   == IF best.lane - s.currentLane > 0 THEN 1 ELSE -1
        next  == an[s.currentLane + dir]
        isSafer == /\ next.firstSolidDist > 20 * U
                   /\ next.firstSolidDist > cur.firstSolidDist
        isSafe  == next.firstSolidDist > 30 * U
        stay  == [target |-> s.currentLane, action |-> "SCANNING",
                  emergency |-> emerg, cooldown |-> cd]
    IN  IF emerg
        THEN IF best.lane # s.currentLane /\ ~next.isBlockedSide /\ (isSafe \/ isSafer)
             THEN [stay EXCEPT !.target = next.lane, !.action = "DODGE"]
             ELSE stay
        ELSE IF /\ cd <= 0
                /\ best.score > cur.score + 50 * 4
                /\ best.firstSolidDist > 300 * U
                /\ ~best.isBlockedSide
             THEN [stay EXCEPT !.target = best.lane, !.action = "RUN", !.cooldown = 20]
             ELSE stay

\* a lane decision whose switch sets a cooldown of 10
laneDecisionShortCooldown(s, an, cooldown) ==
    LET cur   == an[s.currentLane]
        best  == an[bestLane(an)]
        emerg == cur.firstSolidDist < 100 * U + 20 * s.gameSpeed
        cd    == IF emerg THEN 0 ELSE cooldown
        dir   == IF best.lane - s.currentLane > 0 THEN 1 ELSE -1
        next  == an[s.currentLane + dir]
        isSafer == /\ next.firstSolidDist > 20 * U
                   /\ next.firstSolidDist > cur.firstSolidDist
        isSafe  == next.firstSolidDist > 30 * U
        stay  == [target |-> s.currentLane, action |-> "SCANNING",
                  emergency |-> emerg, cooldown |-> cd]
    IN  IF emerg
        THEN IF best.lane # s.currentLane /\ ~next.isBlockedSide /\ (isSafe \/ isSafer)
             THEN [stay EXCEPT !.target = next.lane, !.action = "DODGE"]
             ELSE stay
        ELSE IF /\ cd <= 0
                /\ best.score > cur.score + 50 * 4
                /\ best.firstSolidDist > 300 * U
                /\ ~best.isBlockedSide
             THEN [stay EXCEPT !.target = best.lane, !.action = "RUN", !.cooldown = 10]
             ELSE stay

\* the lane decision of updateAI: [target, action, emergency, cooldown]
laneDecision(s, an, cooldown) ==
    LET cur   == an[s.currentLane]
        best  == an[bestLane(an)]
        emerg == cur.firstSolidDist < 100 * U + 20 * s.gameSpeed
        cd    == IF emerg THEN 0 ELSE cooldown
        dir   == IF best.lane - s.currentLane > 0 THEN 1 ELSE -1
        next  == an[s.currentLane + dir]
        isSafer == /\ next.firstSolidDist > 20 * U
                   /\ next.firstSolidDist > cur.firstSolidDist
        isSafe  == next.firstSolidDist > 30 * U
        stay  == [target |-> s.currentLane, action |-> "SCANNING",
                  emergency |-> emerg, cooldown |-> cd]
    IN  IF emerg
        THEN IF best.lane # s.currentLane /\ ~next.isBlockedSide /\ (isSafe \/ isSafer)
             THEN [stay EXCEPT !.target = next.lane, !.action = "DODGE"]
             ELSE stay
        ELSE IF /\ cd <= 0
                /\ best.score > cur.score + 50 * 4
                /\ best.firstSolidDist > 300 * U
                /\ ~best.isBlockedSide
             THEN [stay EXCEPT !.target = best.lane, !.action = "RUN", !.cooldown = 20]
             ELSE stay

\* an action execution that reacts from 30 frames before the impact
reflexEarly(s, eff) ==
    LET inWindow == /\ eff.distanceToThreat < 30 * s.gameSpeed
                    /\ eff.distanceToThreat > 5 * s.gameSpeed
    IN  IF eff.action = "jump" /\ inWindow THEN [s |-> jump(s), action |-> "JUMP"]
        ELSE IF eff.action = "duck" /\ inWindow THEN [s |-> roll(s), action |-> "DUCK"]
        ELSE [s |-> s, action |-> "none"]

\* the action execution of updateAI on the lane the decision left the player in
reflex(s, eff) ==
    LET inWindow == /\ eff.distanceToThreat < 25 * s.gameSpeed
                    /\ eff.distanceToThreat > 5 * s.gameSpeed
    IN  IF eff.action = "jump" /\ inWindow THEN [s |-> jump(s), action |-> "JUMP"]
        ELSE IF eff.action = "duck" /\ inWindow THEN [s |-> roll(s), action |-> "DUCK"]
        ELSE [s |-> s, action |-> "none"]

\* no barrier is followed
NoWatch == [on |-> FALSE, lane |-> 0, grounded |-> FALSE]

\* the active JUMP and DUCK barriers of a lane from 25 frames ahead of the
\* player to the far end of the contact window, as updateAI finds them
barriersInReach(s, l) ==
    {i \in 1..Len(s.obstacles) :
        /\ s.obstacles[i].active
        /\ s.obstacles[i].type \in {JUMP, DUCK}
        /\ s.obstacles[i].lane = l
        /\ s.obstacles[i].z > -25 * s.gameSpeed
        /\ s.obstacles[i].z < U}

\* the barrier followed after a tick of updateAI that leaves the player in
\* lane l: none if the lane has none in reach; a barrier found in reach for
\* the first time, or in a lane the player has come to, is noted with
\* whether the tick found the player on the ground with the barrier more than
\* 5 frames away
follow(s, l) ==
    IF barriersInReach(s, l) = {} THEN NoWatch
    ELSE IF s.watch.on /\ s.watch.lane = l /\ s.currentLane = l THEN s.watch
    ELSE [on |-> TRUE, lane |-> l,
          grounded |-> /\ ~s.isJumping
                       /\ ~s.isRolling
                       /\ \A i \in barriersInReach(s, l) :
                              s.obstacles[i].z < -5 * s.gameSpeed]

updateAI(s) ==
    LET cd0   == IF s.aiLaneChangeCooldown > 0 THEN s.aiLaneChangeCooldown - 1
                 ELSE s.aiLaneChangeCooldown
        range == 800 * U + 400 * s.gameSpeed
        an    == [l \in Lanes |-> analyzeLane(s.obstacles, l, range, s.isRolling, s.isJumping)]
        dec   == laneDecision(s, an, cd0)
        s1    == [s EXCEPT !.aiLaneChangeCooldown = dec.cooldown]
        s2    == IF dec.target # s1.currentLane THEN setLane(s1, dec.target) ELSE s1
        rf    == reflex(s2, an[s2.currentLane])
        tel   == [enabled |-> s.autoPilotEnabled,
                  currentLane |-> s2.currentLane,
                  targetLane |-> dec.target,
                  action |-> IF rf.action # "none" THEN rf.action ELSE dec.action,
                  confidence |-> IF dec.emergency THEN 20 ELSE 100,
                  nearestThreatDist |-> an[s.currentLane].distanceToThreat \div U,
                  laneScores |-> <<an[-1].score, an[0].score, an[1].score>>]
    IN  [rf.s EXCEPT !.sinceSwitch = IF dec.action = "RUN" THEN 0
                                     ELSE IF dec.emergency \/ @ >= 20 THEN 20
                                     ELSE @ + 1,
                     !.watch = follow(s, s2.currentLane),
                     !.ev.ai = Append(@, tel),
                     !.ev.aiFrom = s.currentLane,
                     !.ev.aiTo = s2.currentLane,
                     !.ev.reflex = Append(@, [need |-> an[s2.currentLane].action,
                                              dist |-> an[s2.currentLane].distanceToThreat,
                                              speed |-> s.gameSpeed,
                                              issued |-> rf.action])]

\* ------------------------------------------------------------------ update

\* the lateral easing toward targetX and the snap to the lane
easeX(x, targetX, auto) ==
    LET x1 == x + (IF auto THEN Frac(targetX - x, 8, 10) ELSE Frac(targetX - x, 3, 10))
    IN  IF auto /\ Abs(x1 - targetX) < U \div 5 THEN targetX
        ELSE IF ~auto /\ Abs(x1 - targetX) < U \div 20 THEN targetX
        ELSE x1

\* a jump integration that lands only once y is below the base height
motionLateLanding(s) ==
    IF s.isJumping
    THEN LET y1 == s.playerY + s.playerVelocityY
             v1 == s.playerVelocityY - gravity
         IN  IF y1 < playerBaseY
             THEN [s EXCEPT !.playerY = playerBaseY, !.isJumping = FALSE,
                            !.playerVelocityY = 0]
             ELSE [s EXCEPT !.playerY = y1, !.playerVelocityY = v1]
    ELSE IF s.isRolling
         THEN IF s.rollTimer - 1 <= 0
              THEN [s EXCEPT !.rollTimer = @ - 1, !.isRolling = FALSE, !.scaleY = 10]
              ELSE [s EXCEPT !.rollTimer = @ - 1, !.scaleY = 6]
         ELSE s

\* a roll countdown that runs only while the timer is odd
motionStalledRoll(s) ==
    IF s.isJumping
    THEN LET y1 == s.playerY + s.playerVelocityY
             v1 == s.playerVelocityY - gravity
         IN  IF y1 <= playerBaseY
             THEN [s EXCEPT !.playerY = playerBaseY, !.isJumping = FALSE,
                            !.playerVelocityY = 0]
             ELSE [s EXCEPT !.playerY = y1, !.playerVelocityY = v1]
    ELSE IF s.isRolling /\ s.rollTimer % 2 = 1
         THEN IF s.rollTimer - 1 <= 0
              THEN [s EXCEPT !.rollTimer = @ - 1, !.isRolling = FALSE, !.scaleY = 10]
              ELSE [s EXCEPT !.rollTimer = @ - 1, !.scaleY = 6]
         ELSE s

\* the jump integration and the roll countdown
motion(s) ==
    IF s.isJumping
    THEN LET y1 == s.playerY + s.playerVelocityY
             v1 == s.playerVelocityY - gravity
         IN  IF y1 <= playerBaseY
             THEN [s EXCEPT !.playerY = playerBaseY, !.isJumping = FALSE,
                            !.playerVelocityY = 0]
             ELSE [s EXCEPT !.playerY = y1, !.playerVelocityY = v1]
    ELSE IF s.isRolling
         THEN IF s.rollTimer - 1 <= 0
              THEN [s EXCEPT !.rollTimer = @ - 1, !.isRolling = FALSE, !.scaleY = 10]
              ELSE [s EXCEPT !.rollTimer = @ - 1, !.scaleY = 6]
         ELSE s

\* Math.min(maxSpeed, gameSpeed + speedIncrement)
ramp(v) == IF v + speedIncrement < maxSpeed THEN v + speedIncrement ELSE maxSpeed

\* the speed ramp, the distance, the score and its notification
clock(s) ==
    LET v == ramp(s.gameSpeed)
        d == s.distanceTraveled + v
        sc == (d * 10) \div U
    IN  [s EXCEPT !.gameSpeed = v, !.distanceTraveled = d, !.score = sc,
                  !.ev.reported = Append(@, sc), !.ev.ticked = TRUE]

physics(s) ==
    motion([s EXCEPT !.playerX = easeX(s.playerX, s.currentLane * laneWidth,
                                       s.autoPilotEnabled)])

\* gameOver() that reports the score and leaves the state PLAYING
gameOverKeepsPlaying(s) ==
    [s EXCEPT !.overCalls = @ + 1,
              !.ev.finals = Append(@, s.score)]

\* gameOver() that does not cancel the requested frame
gameOverNoCancel(s) ==
    [s EXCEPT !.state = "GAME_OVER",
              !.overCalls = @ + 1,
              !.ev.finals = Append(@, s.score)]

gameOver(s) ==
    [s EXCEPT !.state = "GAME_OVER",
              !.pending = @ \ {s.animationId},
              !.overCalls = @ + 1,
              !.ev.finals = Append(@, s.score)]

\* the hitbox test of the collision block
inContact(s, o) ==
    /\ o.z > -U /\ o.z < U
    /\ Abs(o.lane * laneWidth - s.playerX) < (12 * U) \div 10

\* rules of survival in which a jump clears a SOLID hazard too
safeOverSolid(s, o) ==
    \/ o.type \in {JUMP, SOLID} /\ s.playerY > 120
    \/ o.type = DUCK /\ s.isRolling

\* rules of survival that let the autopilot through
safeAutoLenient(s, o) ==
    \/ s.autoPilotEnabled
    \/ o.type = JUMP /\ s.playerY > 120
    \/ o.type = DUCK /\ s.isRolling

\* the rules of survival
safe(s, o) ==
    \/ o.type = JUMP /\ s.playerY > 120
    \/ o.type = DUCK /\ s.isRolling

\* the coin branch that leaves the coin active
collectCoinStaysActive(s, i) ==
    [s EXCEPT !.score = @ + 500,
              !.coins = @ + 1,
              !.ev.coinHits = Append(@, i)]

\* the coin branch of the collision block
collectCoin(s, i) ==
    [s EXCEPT !.score = @ + 500,
              !.obstacles[i].active = FALSE,
              !.coins = @ + 1,
              !.ev.coinHits = Append(@, i)]

\* the collision block for entry i, already advanced
collide(s, i) ==
    LET o == s.obstacles[i]
    IN  IF ~(o.active /\ inContact(s, o)) THEN s
        ELSE IF o.type = COIN THEN collectCoin(s, i)
        ELSE LET s1 == [s EXCEPT !.ev.contacts =
                            Append(@, [type |-> o.type, lane |-> o.lane, y |-> s.playerY,
                                       rolling |-> s.isRolling, jumping |-> s.isJumping,
                                       auto |-> s.autoPilotEnabled,
                                       fatal |-> ~safe(s, o)])]
             IN  IF safe(s, o) THEN s1 ELSE gameOver(s1)

cutoff == 15 * U                  \* the near cutoff of segments and obstacles
wrapBack == 250 * U               \* what a segment past the cutoff goes back by

\* a segment wrapped back by 240
recycleShort(z, v) == IF z + v > cutoff THEN z + v - 240 * U ELSE z + v

\* a ground segment advances and, past z = 15, goes back by 250
recycle(z, v) == IF z + v > cutoff THEN z + v - wrapBack ELSE z + v

\* the forEach over groundSegments: the positions g at speed v
moveSegments(g, v) == [i \in 1..segmentCount |-> recycle(g[i], v)]

RemoveAt(seq, i) == SubSeq(seq, 1, i - 1) \o SubSeq(seq, i + 1, Len(seq))

\* the obstacle loop, from the last entry down to the first
RECURSIVE obstacleLoop(_, _)
obstacleLoop(s, i) ==
    IF i < 1 THEN s
    ELSE LET s1 == [s EXCEPT !.obstacles[i].z = @ + s.gameSpeed]
             s2 == collide(s1, i)
             s3 == IF s2.obstacles[i].z > 15 * U
                   THEN [s2 EXCEPT !.obstacles = RemoveAt(@, i)]
                   ELSE s2
         IN  obstacleLoop(s3, i - 1)

spawnZ == -180 * U

minGap(s) == 50 * U + 30 * s.gameSpeed

\* a gate that opens on every tick
spawnDueAlways(s) == Len(s.obstacles) >= 0

\* the spawn gate
spawnDue(s) ==
    \/ Len(s.obstacles) = 0
    \/ s.obstacles[Len(s.obstacles)].z > spawnZ + minGap(s)

\* a choice of the safe lane among all three lanes
possibleLanesAll(last) == Lanes \cup {last}

possibleLanes(last) ==
    {last} \cup (IF last > -1 THEN {last - 1} ELSE {}) \cup (IF last < 1 THEN {last + 1} ELSE {})

\* what the random draws of one row can give: the safe lane and, per lane,
\* what is placed there ("none", a coin on the safe lane, a hazard elsewhere)
RowDraws(last) ==
    {d \in [safeLane : possibleLanes(last),
            put : [Lanes -> {"none", COIN, JUMP, DUCK, SOLID}]] :
        \A l \in Lanes : IF l = d.safeLane THEN d.put[l] \in {"none", COIN}
                         ELSE d.put[l] \in {"none", JUMP, DUCK, SOLID}}

RECURSIVE rowEntries(_, _, _)
rowEntries(d, z, l) ==
    IF l > 1 THEN <<>>
    ELSE (IF d.put[l] = "none" THEN <<>>
          ELSE <<[lane |-> l, z |-> z, type |-> d.put[l], active |-> TRUE]>>)
         \o rowEntries(d, z, l + 1)

spawnObstacleRow(s, z, d) ==
    LET row == rowEntries(d, z, -1)
    IN  [s EXCEPT !.lastSafeLane = d.safeLane,
                  !.obstacles = @ \o row,
                  !.placed = @ + Len(row),
                  !.ev.spawned = TRUE,
                  !.ev.gate = Append(@, [draw |-> d, before |-> s.obstacles,
                                         speed |-> s.gameSpeed,
                                         last |-> s.lastSafeLane])]

\* update() up to the spawn gate with updateAI run on every tick
updateToGateAlwaysAI(s) ==
    LET s1 == clock(s)
        s2 == updateAI(s1)
        s3 == [physics(s2) EXCEPT
                  !.groundSegments = moveSegments(s.groundSegments, ramp(s.gameSpeed))]
    IN  obstacleLoop(s3, Len(s.obstacles))

\* update() up to the spawn gate; the segments move at the speed the clock
\* has set, and nothing before them in the tick touches them
updateToGate(s) ==
    LET s1 == clock(s)
        s2 == IF s.autoPilotEnabled THEN updateAI(s1) ELSE [s1 EXCEPT !.watch = NoWatch]
        s3 == [physics(s2) EXCEPT
                  !.groundSegments = moveSegments(s.groundSegments, ramp(s.gameSpeed))]
    IN  obstacleLoop(s3, Len(s.obstacles))

\* ----------------------------------------------------------------- actions

\* the engine as a record
Cur == [state |-> state, animationId |-> animationId, pending |-> pending,
        score |-> score, distanceTraveled |-> distanceTraveled,
        gameSpeed |-> gameSpeed, currentLane |-> currentLane,
        playerVelocityY |-> playerVelocityY, isJumping |-> isJumping,
        isRolling |-> isRolling, rollTimer |-> rollTimer, playerX |-> playerX,
        playerY |-> playerY, scaleY |-> scaleY,
        autoPilotEnabled |-> autoPilotEnabled, lastSafeLane |-> lastSafeLane,
        aiLaneChangeCooldown |-> aiLaneChangeCooldown, obstacles |-> obstacles,
        groundSegments |-> groundSegments,
        runs |-> runs, cmds |-> cmds, placed |-> placed, overCalls |-> overCalls,
        coins |-> coins, sinceSwitch |-> sinceSwitch, watch |-> watch, ev |-> ev]

Apply(s) ==
    /\ state' = s.state
    /\ animationId' = s.animationId
    /\ pending' = s.pending
    /\ score' = s.score
    /\ distanceTraveled' = s.distanceTraveled
    /\ gameSpeed' = s.gameSpeed
    /\ currentLane' = s.currentLane
    /\ playerVelocityY' = s.playerVelocityY
    /\ isJumping' = s.isJumping
    /\ isRolling' = s.isRolling
    /\ rollTimer' = s.rollTimer
    /\ playerX' = s.playerX
    /\ playerY' = s.playerY
    /\ scaleY' = s.scaleY
    /\ autoPilotEnabled' = s.autoPilotEnabled
    /\ lastSafeLane' = s.lastSafeLane
    /\ aiLaneChangeCooldown' = s.aiLaneChangeCooldown
    /\ obstacles' = s.obstacles
    /\ groundSegments' = s.groundSegments
    /\ runs' = s.runs
    /\ cmds' = s.cmds
    /\ placed' = s.placed
    /\ overCalls' = s.overCalls
    /\ coins' = s.coins
    /\ sinceSwitch' = s.sinceSwitch
    /\ watch' = s.watch
    /\ ev' = s.ev

Count(d) == Cardinality({l \in Lanes : d.put[l] # "none"})

\* the draws explored: while the run may still place objects a row places
\* at least one and at most what is left; afterwards rows stay empty and
\* keep the safe lane.  With empties, the calls after the first row of the
\* run may also place nothing and move the safe lane.
Draws(s, maxObjs, empties) ==
    IF empties /\ s.placed > 0
    THEN {d \in RowDraws(s.lastSafeLane) : Count(d) <= maxObjs - s.placed}
    ELSE IF s.placed < maxObjs
    THEN {d \in RowDraws(s.lastSafeLane) : Count(d) >= 1 /\ Count(d) <= maxObjs - s.placed}
    ELSE {[safeLane |-> s.lastSafeLane, put |-> [l \in Lanes |-> "none"]]}

\* update(): the part up to the gate, then the row if one is due
Update(s, maxObjs, empties) ==
    \E g \in {updateToGate(s)} :
        IF spawnDue(g)
        THEN \E d \in Draws(g, maxObjs, empties) :
                \E n \in {spawnObstacleRow(g, spawnZ, d)} : Apply(n)
        ELSE Apply(g)

\* animate(): request the next frame, then update
Animate(s, maxObjs, empties) ==
    IF s.state # "PLAYING" THEN Apply(s)
    ELSE \E a \in {[s EXCEPT !.animationId = @ + 1,
                             !.pending = @ \cup {s.animationId + 1}]} :
            Update(a, maxObjs, empties)

\* the assignments of start() before it enters the loop
startReset(s) ==
    [s EXCEPT !.score = 0, !.distanceTraveled = 0, !.gameSpeed = startSpeed,
              !.currentLane = 0, !.lastSafeLane = 0, !.playerVelocityY = 0,
              !.isJumping = FALSE, !.isRolling = FALSE, !.aiLaneChangeCooldown = 0,
              !.obstacles = <<>>, !.playerX = 0, !.playerY = playerBaseY,
              !.state = "PLAYING"]

\* the simulation state start() is said to reset
Snapshot(s) ==
    [score |-> s.score, distanceTraveled |-> s.distanceTraveled,
     gameSpeed |-> s.gameSpeed, currentLane |-> s.currentLane,
     lastSafeLane |-> s.lastSafeLane, playerVelocityY |-> s.playerVelocityY,
     isJumping |-> s.isJumping, isRolling |-> s.isRolling,
     playerX |-> s.playerX, playerY |-> s.playerY, scaleY |-> s.scaleY,
     rollTimer |-> s.rollTimer,
     aiLaneChangeCooldown |-> s.aiLaneChangeCooldown, obstacles |-> s.obstacles]

Start(maxFrames, maxRuns, maxObjs, empties) ==
    /\ state # "PLAYING"
    /\ runs < maxRuns
    /\ animationId < maxFrames
    /\ \E r \in {startReset(Cur)} :
          \E h \in {[r EXCEPT !.runs = @ + 1, !.cmds = 0, !.placed = 0,
                               !.overCalls = 0, !.coins = 0, !.sinceSwitch = 20,
                               !.watch = NoWatch,
                               !.ev = [NoEv EXCEPT !.op = "start",
                                                   !.reset = <<Snapshot(r)>>]]} :
             Animate(h, maxObjs, empties)

\* a frame callback runs
Frame(maxFrames, maxObjs, empties) ==
    /\ animationId < maxFrames
    /\ \E id \in pending :
          \E c \in {[Cur EXCEPT !.pending = @ \ {id},
                                !.ev = [NoEv EXCEPT !.op = "frame"]]} :
             Animate(c, maxObjs, empties)

\* the first frame of the run has run and the second has not
JustStarted == gameSpeed = startSpeed + speedIncrement

\* an active object is within lead frames of the player's position, or
\* inside the contact window
NearObject(lead) ==
    \E i \in 1..Len(obstacles) :
        obstacles[i].active /\ obstacles[i].z > -lead * gameSpeed /\ obstacles[i].z < U

\* manual commands come from the key and touch handlers of App while the game
\* is PLAYING; they are explored while an object is near, and the autopilot
\* switch right after start()
CmdNow(maxCmds, near) == state = "PLAYING" /\ cmds < maxCmds /\ near

Cmd(op, s) ==
    \E c \in {[s EXCEPT !.cmds = @ + 1,
                        !.ev = [NoEv EXCEPT !.op = op, !.pre = <<Snapshot(Cur)>>]]} : Apply(c)

MoveLeft(maxCmds, near) == CmdNow(maxCmds, near) /\ Cmd("moveLeft", moveLeft(Cur))

MoveRight(maxCmds, near) == CmdNow(maxCmds, near) /\ Cmd("moveRight", moveRight(Cur))

Jump(maxCmds, near) == CmdNow(maxCmds, near) /\ Cmd("jump", jump(Cur))

Roll(maxCmds, near) == CmdNow(maxCmds, near) /\ Cmd("roll", roll(Cur))

\* a caller of the public setLane
SetLane(maxCmds, near, reach) ==
    /\ CmdNow(maxCmds, near)
    /\ \E l \in (-reach)..reach : Cmd("setLane", setLane(Cur, l))

\* the nearest row has just come within d of the player
ComesWithin(d) ==
    \E i \in 1..Len(obstacles) :
        /\ obstacles[i].active
        /\ obstacles[i].z >= -d * U
        /\ obstacles[i].z < -d * U + gameSpeed

\* the autopilot button of App, pressed at the moments `when` allows
ToggleAutoPilot(maxCmds, when) ==
    /\ state = "PLAYING"
    /\ cmds < maxCmds
    /\ when
    /\ Cmd("toggleAutoPilot", toggleAutoPilot(Cur, ~autoPilotEnabled))

Init ==
    /\ state = "MENU"
    /\ animationId = 0
    /\ pending = {}
    /\ score = 0
    /\ distanceTraveled = 0
    /\ gameSpeed = 0
    /\ currentLane = 0
    /\ playerVelocityY = 0
    /\ isJumping = FALSE
    /\ isRolling = FALSE
    /\ rollTimer = 0
    /\ playerX = 0
    /\ playerY = playerBaseY
    /\ scaleY = 10
    /\ autoPilotEnabled = FALSE
    /\ lastSafeLane = 0
    /\ aiLaneChangeCooldown = 0
    /\ obstacles = <<>>
    /\ groundSegments = [i \in 1..segmentCount |-> -(i - 1) * segmentLength]
    /\ runs = 0
    /\ cmds = 0
    /\ placed = 0
    /\ overCalls = 0
    /\ coins = 0
    /\ sinceSwitch = 20
    /\ watch = NoWatch
    /\ ev = NoEv

Next ==
    \/ Start(MaxFrames, MaxRuns, MaxObjs, FALSE)
    \/ Frame(MaxFrames, MaxObjs, FALSE)
    \/ MoveLeft(MaxCmds, NearObject(CmdLead))
    \/ MoveRight(MaxCmds, NearObject(CmdLead))
    \/ Jump(MaxCmds, NearObject(CmdLead))
    \/ Roll(MaxCmds, NearObject(CmdLead))
    \/ ToggleAutoPilot(MaxCmds, JustStarted)

\* the game from the menu: one object per run, manual commands near it
Spec == Init /\ [][Next]_vars

NextAI ==
    \/ Start(AIFrames, MaxRuns, AIObjs, FALSE)
    \/ Frame(AIFrames, AIObjs, FALSE)
    \/ MoveLeft(MaxCmds, JustStarted)
    \/ MoveRight(MaxCmds, JustStarted)
    \/ ToggleAutoPilot(MaxCmds, JustStarted)

\* the first frames of a run with up to AIObjs objects ahead, the lane keys
\* and the autopilot switch used right after start()
SpecAI == Init /\ [][NextAI]_vars

NextSpawn ==
    \/ Start(SpawnFrames, MaxRuns, SpawnObjs, FALSE)
    \/ Frame(SpawnFrames, SpawnObjs, FALSE)

\* the spawner alone, up to the second row of a run
SpecSpawn == Init /\ [][NextSpawn]_vars

NextRows ==
    \/ Start(RowFrames, OneRun, RowObjs, TRUE)
    \/ Frame(RowFrames, RowObjs, TRUE)

\* the spawner alone, with the calls that place nothing between two rows
SpecRows == Init /\ [][NextRows]_vars

NextPilot ==
    \/ Start(PilotFrames, OneRun, PilotObjs, FALSE)
    \/ Frame(PilotFrames, PilotObjs, FALSE)
    \/ ToggleAutoPilot(MaxCmds, ComesWithin(FarSwitch) \/ ComesWithin(NearSwitch))

\* a run without key presses in which the autopilot is switched when the
\* first row is 40 or 10 ahead of the player
SpecPilot == Init /\ [][NextPilot]_vars

NextDodge ==
    \/ Start(PilotFrames, OneRun, PilotObjs, FALSE)
    \/ Frame(PilotFrames, PilotObjs, FALSE)
    \/ MoveLeft(MaxCmds, ComesWithin(NearSwitch))
    \/ MoveRight(MaxCmds, ComesWithin(NearSwitch))
    \/ ToggleAutoPilot(MaxCmds, ComesWithin(CloseSwitch))

\* a run in which a lane key is pressed when the first row is 10 ahead and
\* the autopilot is switched on when it is 3 ahead
SpecDodge == Init /\ [][NextDodge]_vars

\* the Navigator has just switched lanes in the optimisation branch
JustSwitched == ev.ai # <<>> /\ ev.aiTo # ev.aiFrom

NextFlap ==
    \/ Start(AIFrames, OneRun, AIObjs, FALSE)
    \/ Frame(AIFrames, AIObjs, FALSE)
    \/ ToggleAutoPilot(MaxCmds, JustStarted)
    \/ MoveLeft(MaxCmds, JustSwitched)
    \/ MoveRight(MaxCmds, JustSwitched)

\* the first frames of a run with the autopilot on, in which a lane key is
\* pressed right after the Navigator has switched lanes
SpecFlap == Init /\ [][NextFlap]_vars

\* enough frames are left for a roll to run out
TimeToFinish == animationId + rollTicks < MoveFrames

NextMoves ==
    \/ Start(MoveFrames, OneRun, RoadObjs, FALSE)
    \/ Frame(MoveFrames, RoadObjs, FALSE)
    \/ Jump(MaxCmds, TimeToFinish)
    \/ Roll(MaxCmds, TimeToFinish)

\* jump and roll on the empty road, the autopilot off; the browser keeps
\* running the frame callback it was asked for
SpecMoves == Init /\ [][NextMoves]_vars /\ WF_vars(Frame(MoveFrames, RoadObjs, FALSE))

\* positions an entry can have: beyond the vision range, far ahead, around
\* the ends of the blocked-beside window, at the player, and past the window
ScanZs == {-1100 * U, -40 * U, -5 * U, -4 * U, -4 * U + 1, -1, 0,
           4 * U - 1, 4 * U, 5 * U - 1, 5 * U, 12 * U}

ScanEntries == [lane : {0, 1}, z : ScanZs, type : {SOLID, JUMP, DUCK, COIN},
                active : BOOLEAN]

\* the list is in the order the spawner and the obstacle loop keep it in:
\* rows are appended at the far end and all entries advance together, so z
\* never grows along the list, and a row is laid from lane -1 to lane 1
Ordered(obs) ==
    \A i, j \in DOMAIN obs :
        i < j => \/ obs[i].z > obs[j].z
                 \/ (obs[i].z = obs[j].z /\ obs[i].lane < obs[j].lane)

\* a run in its first tick with an obstacle list of up to ScanObjs entries,
\* of any kind and active or not
InitScan ==
    /\ state = "PLAYING"
    /\ animationId = 1
    /\ pending = {1}
    /\ score = 0
    /\ distanceTraveled = 0
    /\ gameSpeed = startSpeed
    /\ currentLane = 0
    /\ playerVelocityY = 0
    /\ isJumping = FALSE
    /\ isRolling = FALSE
    /\ rollTimer = 0
    /\ playerX = 0
    /\ playerY = playerBaseY
    /\ scaleY = 10
    /\ autoPilotEnabled = TRUE
    /\ lastSafeLane = 0
    /\ aiLaneChangeCooldown = 0
    /\ \E n \in 0..ScanObjs : obstacles \in [1..n -> ScanEntries]
    /\ Ordered(obstacles)
    /\ groundSegments = [i \in 1..segmentCount |-> -(i - 1) * segmentLength]
    /\ runs = 1
    /\ cmds = 0
    /\ placed = 0
    /\ overCalls = 0
    /\ coins = 0
    /\ sinceSwitch = 20
    /\ watch = NoWatch
    /\ ev = NoEv

\* analyzeLane(laneIdx, visionRange) as updateAI calls it; ev.ai holds what
\* it returns
Scan ==
    /\ ev.op = "none"
    /\ \E l \in Lanes :
          \E c \in {[Cur EXCEPT !.ev = [NoEv EXCEPT
                          !.op = "analyzeLane",
                          !.ai = <<analyzeLane(obstacles, l, 800 * U + 400 * gameSpeed,
                                               isRolling, isJumping)>>]]} : Apply(c)

\* analyzeLane alone, on the obstacle lists InitScan draws
SpecScan == InitScan /\ [][Scan]_vars

NextLanes ==
    \/ Start(LaneFrames, OneRun, RoadObjs, FALSE)
    \/ Frame(LaneFrames, RoadObjs, FALSE)
    \/ MoveLeft(MaxCmds, TRUE)
    \/ MoveRight(MaxCmds, TRUE)
    \/ SetLane(MaxCmds, TRUE, LaneReach)

\* the lane commands of the engine on the empty road, the autopilot off
SpecLanes == Init /\ [][NextLanes]_vars

NextRoad ==
    \/ Start(RoadFrames, OneRun, RoadObjs, FALSE)
    \/ Frame(RoadFrames, RoadObjs, FALSE)

\* the empty road: the ground segments over more than one turn of the ring
SpecRoad == Init /\ [][NextRoad]_vars

\* ------------------------------------------------------------------ claims

LastReported == ev.reported[Len(ev.reported)]

\* the hazards in contact at the end of a tick: active, not a coin,
\* -1 < z < 1 and less than 1.2 beside the player
InContactNow ==
    {i \in 1..Len(obstacles) :
        /\ obstacles[i].active
        /\ obstacles[i].type # COIN
        /\ obstacles[i].z > -U /\ obstacles[i].z < U
        /\ Abs(obstacles[i].lane * laneWidth - playerX) * 10 < 12 * U}

Clears(i) ==
    \/ obstacles[i].type = JUMP /\ playerY > 120
    \/ obstacles[i].type = DUCK /\ isRolling

\* C1: on a tick with a hazard in contact the run survives the contact iff
\* the hazard is a JUMP barrier and the player is above 1.2, or it is a DUCK
\* barrier and the player is rolling; a SOLID hazard in contact ends the run.
C1_SurvivalRule ==
    ev.ticked =>
        /\ state = "PLAYING" <=> \A i \in InContactNow : Clears(i)
        /\ state = "GAME_OVER" <=> \E i \in InContactNow : ~Clears(i)
        /\ \A i \in InContactNow : obstacles[i].type = SOLID => state = "GAME_OVER"
        /\ Len(ev.contacts) = Cardinality(InContactNow)

\* a JUMP barrier in contact with the player in the air, survived
C1_Witness ==
    \E k \in 1..Len(ev.contacts) :
        /\ ev.contacts[k].type = JUMP
        /\ ev.contacts[k].y > 120
        /\ state = "PLAYING"

\* C2: isJumping and isRolling are never both true.
C2_JumpRollExclusive == ~(isJumping /\ isRolling)

\* jump() was issued during a roll
C2_Witness == ev.op = "jump" /\ ev.pre[1].isRolling /\ isJumping

Motion(r) == <<r.isJumping, r.isRolling, r.rollTimer, r.playerVelocityY>>

C5_GameOverOnce ==
    /\ state = "PLAYING" => overCalls = 0
    /\ state = "GAME_OVER" => overCalls = 1
    /\ Len(ev.finals) <= 1
    /\ (\E k \in 1..Len(ev.contacts) : ev.contacts[k].fatal) => Len(ev.finals) = 1

\* a run ended by a fatal contact
C5_Witness ==
    /\ state = "GAME_OVER"
    /\ overCalls = 1
    /\ \E k \in 1..Len(ev.contacts) : ev.contacts[k].fatal

\* C6: in the GAME_OVER state no frame callback is pending and the next
\* operation that runs a tick is start().
C6_NoTickAfterGameOver ==
    [][state = "GAME_OVER" => (pending = {} /\ (ev'.ticked => ev'.op = "start"))]_vars

\* the tick of the fatal contact has run and cancelled its frame
C6_Witness == state = "GAME_OVER" /\ ev.ticked /\ pending = {} /\ animationId > 0

\* the simulation state of a fresh run
FreshRun ==
    [score |-> 0, distanceTraveled |-> 0, gameSpeed |-> startSpeed,
     currentLane |-> 0, lastSafeLane |-> 0, playerVelocityY |-> 0,
     isJumping |-> FALSE, isRolling |-> FALSE, playerX |-> 0,
     playerY |-> playerBaseY, scaleY |-> 10, aiLaneChangeCooldown |-> 0,
     obstacles |-> <<>>]

\* C7: the reset of start() gives score 0, distance 0, the start speed, lane
\* 0, last safe lane 0, no vertical velocity, no jump, no roll, the player at
\* base height and unsquashed, cooldown 0 and no obstacle.
C7_StartResets ==
    ev.op = "start" =>
        \A f \in DOMAIN FreshRun : ev.reset[1][f] = FreshRun[f]

\* C8: a coin in contact is awarded once: on the tick of the contact the
\* score is the reported score plus 500, the coin is inactive and the state
\* stays PLAYING; the coins awarded are the inactive coins, so none twice.
C8_CoinOnce ==
    /\ ev.coinHits # <<>> =>
          /\ Len(ev.coinHits) = 1
          /\ ~obstacles[ev.coinHits[1]].active
          /\ ev.contacts = <<>> => state = "PLAYING" /\ score = LastReported + 500
    /\ (ev.ticked /\ ev.coinHits = <<>>) => score = LastReported
    /\ coins = Cardinality({i \in 1..Len(obstacles) :
                               obstacles[i].type = COIN /\ ~obstacles[i].active})

\* the tick after the coin was collected, the coin still in the contact window
C8_Witness ==
    /\ coins = 1
    /\ ev.ticked
    /\ ev.coinHits = <<>>
    /\ \E i \in 1..Len(obstacles) :
          obstacles[i].type = COIN /\ obstacles[i].z > -U /\ obstacles[i].z < U

\* C9: every score reported after a coin was collected, and the final score,
\* is the distance score plus 500 for each coin collected before.
C9_BonusReported ==
    /\ \A k \in 1..Len(ev.reported) :
          ev.reported[k] = (distanceTraveled * 10) \div U
                              + 500 * (coins - Len(ev.coinHits))
    /\ \A k \in 1..Len(ev.finals) :
          ev.finals[k] = (distanceTraveled * 10) \div U + 500 * coins

\* C3: a tick with the autopilot on changes currentLane by at most one lane.
C3_OneLaneStep == ev.ai # <<>> => Abs(ev.aiTo - ev.aiFrom) <= 1

\* C10: a tick spawns a row exactly when the list is empty or its last entry
\* is beyond the gap, and every entry is then farther than 50 + 30 * speed
\* from the row.
C10_SpawnGap ==
    ev.ticked =>
        LET atGate == IF ev.spawned THEN ev.gate[1].before ELSE obstacles
            gap    == 50 * U + 30 * gameSpeed
        IN  /\ ev.spawned <=> \/ atGate = <<>>
                              \/ atGate[Len(atGate)].z > spawnZ + gap
            /\ ev.spawned => \A i \in 1..Len(atGate) : atGate[i].z - spawnZ > gap
            /\ Len(ev.gate) <= 1

\* a second row placed behind the first
C10_Witness ==
    /\ ev.spawned
    /\ ev.gate[1].before # <<>>
    /\ Len(obstacles) > Len(ev.gate[1].before)
    /\ obstacles[Len(obstacles)].z = spawnZ

\* the entries of the row the last spawn call placed
NewRow == SubSeq(obstacles, Len(ev.gate[1].before) + 1, Len(obstacles))

\* C11: every spawn call takes the safe lane from the previous safe lane and
\* its neighbours among the lanes -1, 0, 1, so lastSafeLane stays a lane and
\* moves by at most one lane per call, and the row has no hazard other than
\* a coin on its safe lane.
C11_SafeLaneChoice ==
    /\ lastSafeLane \in Lanes
    /\ ev.spawned =>
          /\ lastSafeLane = ev.gate[1].draw.safeLane
          /\ lastSafeLane \in {ev.gate[1].last - 1, ev.gate[1].last, ev.gate[1].last + 1}
          /\ \A k \in 1..Len(NewRow) :
                /\ NewRow[k].z = spawnZ
                /\ NewRow[k].lane = lastSafeLane => NewRow[k].type = COIN

\* a row with a coin on a safe lane that moved, and a hazard beside it
C11_Witness ==
    /\ ev.spawned
    /\ lastSafeLane # ev.gate[1].last
    /\ \E k \in 1..Len(NewRow) : NewRow[k].lane = lastSafeLane
    /\ \E k \in 1..Len(NewRow) : NewRow[k].type # COIN

\* the lanes without a hazard in the row at z (a coin is no hazard)
FreeLanes(z) ==
    {l \in Lanes : ~\E k \in 1..Len(obstacles) :
        obstacles[k].z = z /\ obstacles[k].lane = l /\ obstacles[k].type # COIN}

\* C12: for two consecutive rows in the world, some hazard-free lane of the
\* later row is at most one lane from some hazard-free lane of the earlier
\* row, also when spawn calls that placed nothing came between them.
C12_SafePathContinuity ==
    \A i, j \in 1..Len(obstacles) :
        (/\ obstacles[j].z < obstacles[i].z
         /\ ~\E k \in 1..Len(obstacles) :
                obstacles[j].z < obstacles[k].z /\ obstacles[k].z < obstacles[i].z)
        => \E a \in FreeLanes(obstacles[i].z), b \in FreeLanes(obstacles[j].z) :
              Abs(a - b) <= 1

\* the lanes with an active SOLID hazard inside the blocked-beside window
SolidBeside ==
    {l \in Lanes : \E k \in 1..Len(obstacles) :
        /\ obstacles[k].active
        /\ obstacles[k].lane = l
        /\ obstacles[k].type = SOLID
        /\ obstacles[k].z > -4 * U /\ obstacles[k].z < 5 * U}

\* C13: with the autopilot on, the score analyzeLane gives a lane that has
\* an active SOLID hazard inside the blocked-beside window is exactly the
\* sentinel, whatever else is in the lane.
C13_SentinelScore ==
    (state = "PLAYING" /\ autoPilotEnabled) =>
        \A l \in SolidBeside :
            analyzeLane(obstacles, l, 800 * U + 400 * gameSpeed,
                        isRolling, isJumping).score = Sentinel

SegmentZs == {groundSegments[i] : i \in DOMAIN groundSegments}

\* C14: after every tick the 25 ground segments are at pairwise distinct
\* positions, each one exactly 10 behind another except the foremost, the
\* first and the last 240 apart: a road of 250 without gap or overlap.
C14_SegmentsTile ==
    /\ Len(groundSegments) = 25
    /\ Cardinality(SegmentZs) = 25
    /\ \E top \in SegmentZs :
          /\ top <= 15 * U
          /\ SegmentZs = {top - k * 10 * U : k \in 0..24}

\* every segment has passed the cutoff once and the one laid at z = 0 has
\* passed it again: it is the last one of the ring, 240 behind the second
C14_Witness ==
    /\ ev.ticked
    /\ distanceTraveled > 265 * U
    /\ groundSegments[1] < -200 * U
    /\ groundSegments[2] = groundSegments[1] + 240 * U

\* C15: the road of the segment ring is at least as long as the configured
\* visibility range (with a buffer of zero or more).
C15_RingCoversRange == Len(groundSegments) * segmentLength >= visibilityRange

SolidAhead ==
    /\ autoPilotEnabled
    /\ obstacles # <<>>
    /\ obstacles[1].type = SOLID
    /\ obstacles[1].active
    /\ \A k \in 1..Len(obstacles) : obstacles[k].lane = 0

\* C18: with the autopilot switched on while a SOLID hazard is 40 (or less)
\* ahead in lane 0 and the side lanes are clear, the Navigator's first tick
\* takes the player to an adjacent lane, the player is outside the hazard's
\* hitbox when it enters the contact window, and the run goes on.
C18_EmergencyDodge ==
    SolidAhead =>
        /\ state = "PLAYING"
        /\ (ev.ai # <<>> /\ obstacles[1].z < 5 * U) => currentLane \in {-1, 1}
        /\ obstacles[1].z > -U => Abs(playerX) * 10 >= 12 * U

\* the player has reached the adjacent lane and the hazard is still more
\* than 30 away
C18_Witness ==
    /\ SolidAhead
    /\ ev.ai # <<>>
    /\ obstacles[1].z < -30 * U
    /\ currentLane # 0
    /\ playerX = currentLane * laneWidth
    /\ state = "PLAYING"

\* the hazards the tick found ahead in the player's lane: active, no coin,
\* in front of the player before they advanced, not spawned by this tick
HazardsAhead ==
    {k \in 1..(IF ev.spawned THEN Len(ev.gate[1].before) ELSE Len(obstacles)) :
        /\ obstacles[k].active
        /\ obstacles[k].type # COIN
        /\ obstacles[k].lane = currentLane
        /\ obstacles[k].z - gameSpeed < 0}

\* the distance of the nearest of them at the time of the analysis
NearestAhead ==
    IF HazardsAhead = {} THEN NoThreat
    ELSE LET k == CHOOSE i \in HazardsAhead :
                      \A j \in HazardsAhead : obstacles[j].z <= obstacles[i].z
         IN  gameSpeed - obstacles[k].z

\* C19: on a tick with the autopilot on, jump() (roll()) is issued exactly
\* when the lane the player is in after the lane decision requires a jump
\* (a duck) and 5 < distanceToThreat / gameSpeed < 25, the distance being
\* that of the nearest hazard ahead in that lane; the command is issued with
\* the barrier still outside the contact window and leaves the player in
\* the air (rolling, unless in the air).  With the autopilot off a JUMP
\* barrier in contact with the grounded player ends the run.
C19_ReflexWindow ==
    /\ \A k \in 1..Len(ev.reflex) :
          LET r     == ev.reflex[k]
              inWin == 5 * r.speed < r.dist /\ r.dist < 25 * r.speed
          IN  /\ r.dist = NearestAhead
              /\ r.issued = "JUMP" <=> (r.need = "jump" /\ inWin)
              /\ r.issued = "DUCK" <=> (r.need = "duck" /\ inWin)
              /\ r.issued = "JUMP" => (isJumping /\ r.dist > U)
              /\ r.issued = "DUCK" => ((isRolling \/ isJumping) /\ r.dist > U)
    /\ \A k \in 1..Len(ev.contacts) :
          (/\ ~ev.contacts[k].auto
           /\ ev.contacts[k].type = JUMP
           /\ ev.contacts[k].y = playerBaseY) => state = "GAME_OVER"

\* the first tick on which the Navigator issues the jump: the barrier is
\* less than 25 frames away and the player takes off
C19_Witness ==
    /\ autoPilotEnabled
    /\ ev.reflex # <<>>
    /\ ev.reflex[1].issued = "JUMP"
    /\ ev.reflex[1].need = "jump"
    /\ playerY = playerBaseY + jumpForce

\* C17: a tick leaves the autopilot switch alone; with the autopilot off it
\* publishes no telemetry and runs no action execution, keeps currentLane
\* and the lane-change cooldown, and starts neither a jump nor a roll (the
\* tick of start() runs on the values start() has reset); with the
\* autopilot on it publishes exactly one snapshot.
C17_AutopilotGate ==
    [][ev'.ticked =>
          /\ autoPilotEnabled' = autoPilotEnabled
          /\ autoPilotEnabled => (Len(ev'.ai) = 1 /\ ev'.ai[1].enabled)
          /\ ~autoPilotEnabled =>
                /\ ev'.ai = <<>>
                /\ ev'.reflex = <<>>
                /\ ev'.op = "frame" =>
                      /\ currentLane' = currentLane
                      /\ aiLaneChangeCooldown' = aiLaneChangeCooldown
                      /\ isJumping' => isJumping
                      /\ isRolling' => isRolling
                /\ ev'.op = "start" =>
                      /\ currentLane' = 0
                      /\ aiLaneChangeCooldown' = 0
                      /\ ~isJumping' /\ ~isRolling']_vars

\* a tick with the autopilot off again, after the Navigator had changed the
\* lane
C17_Witness ==
    /\ ~autoPilotEnabled
    /\ cmds = 2
    /\ ev.op = "frame" /\ ev.ticked
    /\ ev.ai = <<>>
    /\ currentLane # 0

\* what the collision block decides for entry i in the engine state s: the
\* contact test, the survival rule and what it leaves behind
Verdict(s, i) ==
    LET t == collide([s EXCEPT !.ev = NoEv], i)
    IN  <<inContact(s, s.obstacles[i]), safe(s, s.obstacles[i]), t.state,
          t.score, t.obstacles, t.overCalls,
          [k \in DOMAIN t.ev.contacts |-> t.ev.contacts[k].fatal]>>

\* C20: for the player and every entry of the obstacle list, the collision
\* block decides the same with the autopilot flag on as with it off.
C20_NoLeniency ==
    \A i \in 1..Len(obstacles) :
        Verdict([Cur EXCEPT !.autoPilotEnabled = TRUE], i)
            = Verdict([Cur EXCEPT !.autoPilotEnabled = FALSE], i)

\* a hazard in contact with the player after the autopilot was used and
\* switched off again
C20_Witness ==
    /\ cmds = 2
    /\ ~autoPilotEnabled
    /\ \E i \in 1..Len(obstacles) :
          /\ obstacles[i].active
          /\ obstacles[i].type # COIN
          /\ inContact(Cur, obstacles[i])

\* C21: the Navigator runs after the obstacles of the tick have advanced and
\* its row has been spawned, so the nearest-threat distance a tick publishes
\* is the one analyzeLane finds, for the lane the player was in, on the
\* obstacle positions the tick leaves behind.
C21_TickOrder ==
    ev.ai # <<>> =>
        ev.ai[1].nearestThreatDist =
            analyzeLane(obstacles, ev.aiFrom, 800 * U + 400 * gameSpeed,
                        isRolling, isJumping).distanceToThreat \div U

\* what the Navigator of the next tick sees: the three lanes analysed on the
\* obstacles as they are now, at the speed the clock of that tick sets
Seen == [l \in Lanes |-> analyzeLane(obstacles, l, 800 * U + 400 * ramp(gameSpeed),
                                     isRolling, isJumping)]

\* the tick's emergency test on the lane the player is in
Imminent == Seen[currentLane].firstSolidDist < 100 * U + 20 * ramp(gameSpeed)

\* the cooldown after the decrement that opens updateAI
Cooled == IF aiLaneChangeCooldown > 0 THEN aiLaneChangeCooldown - 1
          ELSE aiLaneChangeCooldown

\* a frame runs a tick with the autopilot on
PilotTick == autoPilotEnabled /\ ev'.ticked /\ ev'.op = "frame"

\* the conditions of the optimisation branch
Worthwhile ==
    /\ Cooled = 0
    /\ Seen[bestLane(Seen)].score > Seen[currentLane].score + 50 * 4
    /\ Seen[bestLane(Seen)].firstSolidDist > 300 * U
    /\ ~Seen[bestLane(Seen)].isBlockedSide

\* C22: on a tick without emergency the Navigator changes the lane exactly
\* when the cooldown is 0, the best lane scores more than 50 above the
\* current lane, its nearest SOLID hazard is more than 300 away and it is not
\* blocked beside; it then goes to the best lane, and otherwise currentLane
\* is what it was.
C22_OptimisationSwitch ==
    [][(PilotTick /\ ~Imminent) =>
          /\ currentLane' # currentLane <=> Worthwhile
          /\ Worthwhile => (/\ currentLane' = bestLane(Seen)
                            /\ ev'.ai[1].action \in {"RUN", "JUMP", "DUCK"}
                            /\ ev'.ai[1].confidence = 100)]_vars

\* the Navigator has left lane 0 for a better lane without an emergency
C22_Witness ==
    /\ ev.ai # <<>>
    /\ ev.ai[1].action = "RUN"
    /\ ev.ai[1].confidence = 100
    /\ ev.aiTo # ev.aiFrom
    /\ currentLane = ev.aiTo
    /\ aiLaneChangeCooldown = 20

\* the direction of the best lane and the adjacent lane on the way to it
Toward == IF bestLane(Seen) - currentLane > 0 THEN 1 ELSE -1

Beside == Seen[currentLane + Toward]

\* the conditions of the emergency step
Escapable ==
    /\ bestLane(Seen) # currentLane
    /\ ~Beside.isBlockedSide
    /\ \/ Beside.firstSolidDist > 30 * U
       \/ /\ Beside.firstSolidDist > 20 * U
          /\ Beside.firstSolidDist > Seen[currentLane].firstSolidDist

\* C23: on an emergency tick the Navigator moves the player by at most one
\* lane, to the adjacent lane on the side of the best lane, and exactly when
\* the best lane is another lane, the adjacent lane is not blocked beside and
\* its nearest SOLID hazard is more than 30 away, or more than 20 away and
\* farther than the one in the current lane; with the adjacent lane blocked
\* beside, currentLane is what it was.
C23_EmergencyStep ==
    [][(PilotTick /\ Imminent) =>
          /\ Abs(currentLane' - currentLane) <= 1
          /\ currentLane' # currentLane <=> Escapable
          /\ Escapable => currentLane' = currentLane + Toward
          /\ (bestLane(Seen) # currentLane /\ Beside.isBlockedSide)
                => currentLane' = currentLane]_vars

\* an emergency tick that held the lane: the lane toward the best lane had a
\* hazard beside the player
C23_Witness ==
    /\ ev.ai # <<>>
    /\ ev.ai[1].confidence = 20
    /\ ev.ai[1].action = "SCANNING"
    /\ ev.aiTo = ev.aiFrom
    /\ ev.aiFrom # 0
    /\ ev.ai[1].laneScores[2] <= Sentinel
    /\ ev.ai[1].laneScores[2 - ev.aiFrom] > Sentinel

\* the active SOLID hazards ahead of the player in its lane, inside the
\* vision range of the next tick
SolidsInLane ==
    {k \in 1..Len(obstacles) :
        /\ obstacles[k].active
        /\ obstacles[k].type = SOLID
        /\ obstacles[k].lane = currentLane
        /\ obstacles[k].z < 0
        /\ obstacles[k].z > -(800 * U + 400 * ramp(gameSpeed))}

\* the nearest of them is nearer than 100 + 20 * gameSpeed
SolidImminent ==
    \E k \in SolidsInLane : -obstacles[k].z < 100 * U + 20 * ramp(gameSpeed)

\* C24: a tick with the autopilot on is an emergency exactly when the nearest
\* SOLID hazard ahead in the current lane is nearer than 100 + 20 * gameSpeed;
\* it then publishes confidence 20 and leaves the lane-change cooldown at 0,
\* and every other tick publishes confidence 100.
C24_EmergencyTest ==
    [][PilotTick =>
          /\ ev'.ai[1].confidence = (IF SolidImminent THEN 20 ELSE 100)
          /\ SolidImminent => aiLaneChangeCooldown' = 0
          /\ SolidImminent <=> Imminent]_vars

\* an emergency tick for a SOLID hazard more than 100 away: the speed term
\* of the threshold decides
C24_Witness ==
    /\ ev.ai # <<>>
    /\ ev.ai[1].confidence = 20
    /\ ev.ai[1].nearestThreatDist >= 100
    /\ aiLaneChangeCooldown = 0

\* C25: the lane-change cooldown stays within 0..20; a tick with the
\* autopilot on and no emergency that switches lanes sets it to 20 and comes
\* at least 20 autopilot ticks after the previous such switch of the run
\* unless an emergency tick came between; a tick that does not switch takes
\* one off the cooldown until it is 0.
C25_Hysteresis ==
    /\ [](aiLaneChangeCooldown \in 0..20)
    /\ [][(PilotTick /\ ~Imminent) =>
             IF currentLane' # currentLane
             THEN aiLaneChangeCooldown' = 20 /\ sinceSwitch >= 19
             ELSE aiLaneChangeCooldown' = Cooled]_vars

\* the Navigator switches again on the tick the cooldown runs out, after a
\* lane key had taken the player off the lane it chose
C25_Witness ==
    /\ cmds = 2
    /\ ev.ai # <<>>
    /\ ev.ai[1].action = "RUN"
    /\ ev.aiTo # ev.aiFrom
    /\ aiLaneChangeCooldown = 20
    /\ sinceSwitch = 0
    /\ gameSpeed >= startSpeed + 22 * speedIncrement

\* C26: the player is never below the base height, and on the ground (not
\* jumping) it is at the base height with no vertical velocity; a frame that
\* finds the player in the air lands it (base height, no velocity, isJumping
\* cleared) exactly when y + vy is at or below the base height, and
\* otherwise moves it to y + vy and takes gravity off the velocity.
C26_NeverBelowGround ==
    /\ [](/\ playerY >= playerBaseY
          /\ ~isJumping => (playerY = playerBaseY /\ playerVelocityY = 0))
    /\ [][(isJumping /\ ev'.ticked /\ ev'.op = "frame") =>
             IF playerY + playerVelocityY <= playerBaseY
             THEN /\ playerY' = playerBaseY
                  /\ playerVelocityY' = 0
                  /\ ~isJumping'
             ELSE /\ playerY' = playerY + playerVelocityY
                  /\ playerVelocityY' = playerVelocityY - gravity
                  /\ isJumping']_vars

\* the last state of a jump: the player is falling and the next tick lands it
C26_Witness ==
    /\ state = "PLAYING"
    /\ isJumping
    /\ playerVelocityY < 0
    /\ playerY + playerVelocityY <= playerBaseY

\* C27: with the frames running, a roll ends and a jump lands: a rolling
\* player has between 1 and 40 ticks left, every tick of a roll takes one
\* off and the one that reaches zero ends the roll; a player in the air has
\* a vertical velocity between -jumpForce and jumpForce that every tick in
\* the air lowers by gravity, so it lands within 39 ticks.
C27_MotionEnds ==
    /\ isRolling ~> ~isRolling
    /\ isJumping ~> ~isJumping
    /\ [](isRolling => rollTimer \in 1..rollTicks)
    /\ [](isJumping => (playerVelocityY >= -jumpForce /\ playerVelocityY <= jumpForce))
    /\ [][(isRolling /\ ev'.ticked) =>
             /\ rollTimer' = rollTimer - 1
             /\ isRolling' <=> rollTimer' > 0]_vars
    /\ [][(isJumping /\ ev'.ticked /\ isJumping') =>
             playerVelocityY' = playerVelocityY - gravity]_vars

\* the tick that ends a roll: the countdown has reached zero and the player
\* is unsquashed
C27_Witness ==
    /\ ev.ticked
    /\ cmds >= 1
    /\ ~isRolling
    /\ ~isJumping
    /\ rollTimer = 0
    /\ gameSpeed >= startSpeed + rollTicks * speedIncrement
    /\ scaleY = 10

\* the obstacle list seen from the other side of the player: z becomes -z
Mirror(obs) == [k \in DOMAIN obs |-> [obs[k] EXCEPT !.z = -obs[k].z]]

\* C28: the blocked-beside window is symmetric around the player, so
\* analyzeLane gives a lane the same blocked-beside flag when every entry is
\* moved from z to -z.
C28_SymmetricWindow ==
    ev.op = "analyzeLane" =>
        ev.ai[1].isBlockedSide =
            analyzeLane(Mirror(obstacles), ev.ai[1].lane, 800 * U + 400 * gameSpeed,
                        isRolling, isJumping).isBlockedSide

\* the active hazards (no coins) of the lane analysed that are less than 4
\* ahead of the player or less than 5 behind it
HazardsBeside ==
    {k \in 1..Len(obstacles) :
        /\ obstacles[k].active
        /\ obstacles[k].lane = ev.ai[1].lane
        /\ obstacles[k].type # COIN
        /\ obstacles[k].z > -4 * U
        /\ obstacles[k].z < 5 * U}

\* C28 amended: analyzeLane marks a lane blocked beside exactly when the
\* lane holds an active hazard other than a coin with -4 < z < 5: less than
\* 4 ahead of the player or less than 5 behind it.
C28_Amended ==
    ev.op = "analyzeLane" => (ev.ai[1].isBlockedSide <=> HazardsBeside # {})

\* a lane blocked by a hazard that is between 4 and 5 behind the player
C28_Witness ==
    /\ ev.op = "analyzeLane"
    /\ ev.ai[1].isBlockedSide
    /\ \A k \in HazardsBeside : obstacles[k].z >= 4 * U

\* the active JUMP and DUCK barriers ahead of the player in the lane
\* analysed, inside the vision range
BarriersAhead ==
    {k \in 1..Len(obstacles) :
        /\ obstacles[k].active
        /\ obstacles[k].lane = ev.ai[1].lane
        /\ obstacles[k].type \in {JUMP, DUCK}
        /\ obstacles[k].z < 0
        /\ obstacles[k].z > -(800 * U + 400 * gameSpeed)}

NearestBarrier ==
    CHOOSE k \in BarriersAhead : \A j \in BarriersAhead : obstacles[j].z <= obstacles[k].z

\* C29: the action analyzeLane returns for a lane is "jump" or "duck" after
\* the kind of the nearest active JUMP or DUCK barrier ahead of the player
\* (z < 0) in the lane and inside the vision range, and "none" when there is
\* none; barriers at z >= 0, coins, SOLID hazards, inactive entries and
\* entries of other lanes do not count.
C29_RequiredAction ==
    ev.op = "analyzeLane" =>
        ev.ai[1].action =
            (IF BarriersAhead = {} THEN "none"
             ELSE IF obstacles[NearestBarrier].type = JUMP THEN "jump" ELSE "duck")

\* a lane with a JUMP barrier ahead and a DUCK barrier farther ahead
C29_Witness ==
    /\ ev.op = "analyzeLane"
    /\ ev.ai[1].action = "jump"
    /\ Cardinality(BarriersAhead) = 2
    /\ \E k \in BarriersAhead : obstacles[k].type = DUCK

\* C30: a tick whose contacts are all survived leaves the state PLAYING and
\* the score at the reported distance score (plus the coin bonus of the
\* tick), and has deactivated every hazard it judged, so no active hazard is
\* left in contact with the player.
C30_NonFatalContact ==
    (/\ ev.ticked
     /\ ev.contacts # <<>>
     /\ \A k \in 1..Len(ev.contacts) : ~ev.contacts[k].fatal)
        => /\ state = "PLAYING"
           /\ score = LastReported + 500 * Len(ev.coinHits)
           /\ InContactNow = {}

\* ------------------------------------------------------- the game at speed

\* a row that places nothing and keeps the safe lane
QuietRow(s) == [safeLane |-> s.lastSafeLane, put |-> [l \in Lanes |-> "none"]]

\* the draws explored in a long run: rows that place nothing and, from frame
\* QuietFrames on, also the rows that place what the run may still place
FastDraws(s) ==
    {QuietRow(s)}
    \cup (IF s.animationId >= QuietFrames
          THEN {d \in RowDraws(s.lastSafeLane) :
                   Count(d) >= 1 /\ Count(d) <= MaxObjs - s.placed}
          ELSE {})

\* the frames on which the first row of SpecReflex may be placed: at the
\* speeds 0.6, 1.6 and 2.8
RowTicks == {1, 5000, 11000}

HazardRows(s, n) ==
    {d \in RowDraws(s.lastSafeLane) :
        Count(d) = n /\ \A l \in Lanes : d.put[l] # COIN}

\* the draws explored with the autopilot on: empty rows up to one of the
\* frames of RowTicks, there a row of FirstRow hazards, behind it a row of
\* NextRow hazards, then empty rows
ReflexDraws(s) ==
    IF s.placed = 0
    THEN {QuietRow(s)}
         \cup (IF s.animationId \in RowTicks THEN HazardRows(s, FirstRow) ELSE {})
    ELSE IF s.placed = FirstRow THEN HazardRows(s, NextRow)
    ELSE {QuietRow(s)}

\* the draws of a long run, by its plan
LateDraws(s, plan) == IF plan = "fast" THEN FastDraws(s) ELSE ReflexDraws(s)

\* update() with the draws of the row taken from LateDraws
UpdateLate(s, plan) ==
    \E g \in {updateToGate(s)} :
        IF spawnDue(g)
        THEN \E d \in LateDraws(g, plan) :
                \E n \in {spawnObstacleRow(g, spawnZ, d)} : Apply(n)
        ELSE Apply(g)

AnimateLate(s, plan) ==
    IF s.state # "PLAYING" THEN Apply(s)
    ELSE \E a \in {[s EXCEPT !.animationId = @ + 1,
                             !.pending = @ \cup {s.animationId + 1}]} :
            UpdateLate(a, plan)

StartLate(maxFrames, maxRuns, plan) ==
    /\ state # "PLAYING"
    /\ runs < maxRuns
    /\ animationId < maxFrames
    /\ \E r \in {startReset(Cur)} :
          \E h \in {[r EXCEPT !.runs = @ + 1, !.cmds = 0, !.placed = 0,
                               !.overCalls = 0, !.coins = 0, !.sinceSwitch = 20,
                               !.watch = NoWatch,
                               !.ev = [NoEv EXCEPT !.op = "start",
                                                   !.reset = <<Snapshot(r)>>]]} :
             AnimateLate(h, plan)

FrameLate(maxFrames, plan) ==
    /\ animationId < maxFrames
    /\ \E id \in pending :
          \E c \in {[Cur EXCEPT !.pending = @ \ {id},
                                !.ev = [NoEv EXCEPT !.op = "frame"]]} :
             AnimateLate(c, plan)

NextFast ==
    \/ StartLate(FastFrames, OneRun, "fast")
    \/ FrameLate(FastFrames, "fast")

\* a run without commands that lasts until the speed has passed 2.0: the
\* rows drawn on the way are empty, then one object is placed
SpecFast == Init /\ [][NextFast]_vars

\* the autopilot is on and the first row, if placed, is not yet 5 behind
\* the player
Followed ==
    /\ autoPilotEnabled
    /\ placed = 0 \/ (obstacles # <<>> /\ obstacles[1].z < 5 * U)

\* a frame callback of a run that is followed
FrameFollowed == Followed /\ FrameLate(ReflexFrames, "reflex")

NextReflex ==
    \/ StartLate(ReflexFrames, OneRun, "reflex")
    \/ FrameFollowed
    \/ ToggleAutoPilot(MaxCmds, JustStarted)

\* runs with the autopilot switched on right after start() and no other
\* command, followed until the first row has passed the player
SpecReflex == Init /\ [][NextReflex]_vars

\* C31: no active hazard beside which the player is (|dx| < 1.2) goes in one
\* tick from in front of the contact window (z <= -1) to behind it (z >= 1):
\* at every speed each such hazard is inside -1 < z < 1 on some tick.
C31_NoTunnelling ==
    ev.ticked =>
        \A i \in 1..Len(obstacles) :
            ~(/\ obstacles[i].active
              /\ obstacles[i].type # COIN
              /\ Abs(obstacles[i].lane * laneWidth - playerX) * 10 < 12 * U
              /\ obstacles[i].z >= U
              /\ obstacles[i].z - gameSpeed <= -U)

\* the contacts of the tick with the barrier the Navigator followed: the
\* autopilot on, a JUMP or DUCK barrier of the lane followed, found in reach
\* of the reflex with the player on the ground and in this lane ever since
FollowedContacts ==
    {k \in 1..Len(ev.contacts) :
        /\ ev.contacts[k].auto
        /\ ev.contacts[k].type \in {JUMP, DUCK}
        /\ watch.on
        /\ watch.grounded
        /\ ev.contacts[k].lane = watch.lane}

\* C32: when the Navigator finds a JUMP or DUCK barrier of the player's lane
\* in the reaction window with the player on the ground, and the player stays
\* in the lane, then on every tick on which the barrier is in contact the
\* player is above 1.2 (JUMP) or rolling (DUCK) and the contact is not fatal.
C32_ReflexHolds ==
    \A k \in FollowedContacts :
        /\ ev.contacts[k].type = JUMP => ev.contacts[k].y > 120
        /\ ev.contacts[k].type = DUCK => ev.contacts[k].rolling
        /\ ~ev.contacts[k].fatal

\* at full speed a JUMP barrier the Navigator followed is in contact with
\* the player in the air
C32_Witness ==
    /\ gameSpeed = maxSpeed
    /\ state = "PLAYING"
    /\ \E k \in FollowedContacts : ev.contacts[k].type = JUMP /\ ev.contacts[k].y > 120

\* C33: on a tick on which the Navigator changes the lane, the snapshot it
\* publishes has the lane the player was in before the decision as
\* currentLane and the lane decided as targetLane, so the two differ.
C33_TelemetryLanes ==
    (ev.ai # <<>> /\ ev.aiTo # ev.aiFrom) =>
        /\ ev.ai[1].currentLane = ev.aiFrom
        /\ ev.ai[1].targetLane = ev.aiTo
        /\ ev.ai[1].currentLane # ev.ai[1].targetLane

\* C34: the player's vertical scale is 0.6 only while isRolling is true and
\* is 1 whenever isRolling is false.
C34_ScaleTracksRoll ==
    /\ scaleY \in {6, 10}
    /\ scaleY = 6 => isRolling
    /\ ~isRolling => scaleY = 10

\* -------------------------------------------------------------- frame loop

\* a start() that never returns early
startReturnsNever(s) == s.state \notin {"MENU", "PLAYING", "GAME_OVER"}

\* the early return of start()
startReturns(s) == s.state = "PLAYING"

\* start() called in any state: it returns at once while PLAYING
StartCall(maxFrames, maxRuns, maxObjs, empties) ==
    /\ animationId < maxFrames
    /\ IF startReturns(Cur)
       THEN \E c \in {[Cur EXCEPT !.ev = [NoEv EXCEPT !.op = "start"]]} : Apply(c)
       ELSE /\ runs < maxRuns
            /\ \E r \in {startReset(Cur)} :
                  \E h \in {[r EXCEPT !.runs = @ + 1, !.cmds = 0, !.placed = 0,
                                       !.overCalls = 0, !.coins = 0,
                                       !.sinceSwitch = 20, !.watch = NoWatch,
                                       !.ev = [NoEv EXCEPT !.op = "start",
                                                           !.reset = <<Snapshot(r)>>]]} :
                     Animate(h, maxObjs, empties)

\* cleanup(): cancels the frame requested last
cleanup(s) == [s EXCEPT !.pending = @ \ {s.animationId}]

\* the App component unmounts
Cleanup == \E c \in {[cleanup(Cur) EXCEPT !.ev = [NoEv EXCEPT !.op = "cleanup"]]} : Apply(c)

NextLoop ==
    \/ StartCall(MaxFrames, MaxRuns, MaxObjs, FALSE)
    \/ Frame(MaxFrames, MaxObjs, FALSE)
    \/ Cleanup

\* start(), the frame callback and cleanup() in any order, no other command
SpecLoop == Init /\ [][NextLoop]_vars

\* the fields of the engine
Engine ==
    <<state, animationId, pending, score, distanceTraveled, gameSpeed,
      currentLane, playerVelocityY, isJumping, isRolling, rollTimer, playerX,
      playerY, scaleY, autoPilotEnabled, lastSafeLane, aiLaneChangeCooldown,
      obstacles, groundSegments>>

\* C35: at most one frame callback is pending, the one requested last, and
\* an operation runs update() at most once; start() while PLAYING changes
\* no field of the engine; start() after a game over finds no callback
\* pending and leaves exactly the one it requests.
C35_OneFrameLoop ==
    /\ [](/\ Cardinality(pending) <= 1
          /\ pending \subseteq {animationId}
          /\ Len(ev.reported) <= 1)
    /\ [][/\ (ev'.op = "start" /\ state = "PLAYING") => UNCHANGED Engine
          /\ (ev'.op = "start" /\ state = "GAME_OVER") =>
                /\ pending = {}
                /\ animationId' = animationId + 1
                /\ pending' = {animationId'}]_vars

\* start() is called during the run that was started after a game over
C35_Witness ==
    /\ runs = 2
    /\ state = "PLAYING"
    /\ ev.op = "start"
    /\ ~ev.ticked
    /\ pending = {animationId}
====
